---- MODULE Spec2Model ----
(***************************************************************************)
(* Model of src/tui/app.rs of gai: the App session state, its mutation      *)
(* operations, the list/content resolvers and the one-in-flight request     *)
(* lifecycle (background task + mpsc channel back to the event loop).       *)
(***************************************************************************)
EXTENDS Integers, Sequences, FiniteSets, TLC

\* ------------------------------------------------------------------ bounds
MaxFiles == 2
MaxCursor == 1
MaxCommits == 2
MaxRequests == 2

\* ------------------------------------------------------- Option / Result
None == <<>>
Some(x) == <<x>>
IsSome(o) == Len(o) = 1
IsNone(o) == Len(o) = 0
Unwrap(o) == o[1]

Ok(r) == [Ok |-> r]
Err(e) == [Err |-> e]
IsOk(res) == "Ok" \in DOMAIN res

\* A panic (expect / index out of bounds) as the result of an operation.
Panicked(msg) == [Panic |-> msg]
IsPanic(r) == "Panic" \in DOMAIN r

\* ------------------------------------------------------------- data model
\* GaiFile: path, hunks (opaque to App), should_truncate.
HunksOf(p) == <<"hunk", p>>
DiffEntry(p, t) == [path |-> p, hunks |-> HunksOf(p), should_truncate |-> t]

\* The files loaded at start: distinct paths, in path order, any flags.
InitFiles ==
    UNION { { [i \in 1..n |-> DiffEntry(i, f[i])] : f \in [1..n -> BOOLEAN] }
            : n \in 0..MaxFiles }

\* ResponseCommit: one suggestion; a successful schema holds 0..MaxCommits.
ResponseCommit(k) == [message |-> k]
ResponseSchema(n) == [commits |-> [i \in 1..n |-> ResponseCommit(i)]]
ErrorMessages == {"request failed"}
Response(res) == [result |-> res]
Outcomes ==
    { Response(Ok(ResponseSchema(n))) : n \in 0..MaxCommits }
      \cup { Response(Err(e)) : e \in ErrorMessages }

\* cfg.ai.provider and the model of its provider config.
Provider == "OpenAI"
Model == "gpt-x"

\* TabContent
Description(m) == [Description |-> m]
Diff(h) == [Diff |-> h]
ResponseContent(c) == [Response |-> c]

\* Collaborators outside app.rs.
CapitalizePrefix == FALSE
IncludeScope == TRUE
GetCommitPrefix(c, capitalize_prefix, include_scope) ==
    <<"prefix", c.message, capitalize_prefix, include_scope>>
FromResponse(c, capitalize_prefix, include_scope) ==
    <<"commit", c.message, capitalize_prefix, include_scope>>
\* The diff string of the prompt: the diff content of the files that are not
\* truncated, in order (truncation leaves a file's content out of the prompt).
GetFileDiffsAsStr(fs) ==
    LET kept == SelectSeq(fs, LAMBDA g : ~g.should_truncate)
    IN  [i \in 1..Len(kept) |-> <<kept[i].path, kept[i].hunks>>]

\* ------------------------------------------------------------------ state
VARIABLES
    app,        \* struct App: files, selected_tab, selected, response, ...
    tasks,      \* background tasks spawned by send_request, still running
    channel,    \* mpsc channel from the tasks to the event loop
    dispatched, \* number of requests dispatched so far
    consumed,   \* number of results handed to display_response so far
    aborted,    \* the process panicked
    last_op,    \* the operation of the last step, with its argument (for
                \* apply_commits: the batch submitted by the step before it)
    pre,        \* the state before the last step
    rendered,   \* the arguments of ui.render of the last step, if it rendered
    submitted   \* the batch given to gai.apply_commits in the last step

vars == <<app, tasks, channel, dispatched, consumed, aborted,
          last_op, pre, rendered, submitted>>

Snapshot ==
    [app |-> app, tasks |-> tasks, channel |-> channel,
     dispatched |-> dispatched, consumed |-> consumed]

\* ------------------------------------------------------------- resolvers
PathsOf(fs) == [i \in 1..Len(fs) |-> fs[i].path]
IsTruncated(g) == g.should_truncate
IsNotTruncated(g) == ~g.should_truncate

\* get_list on the Diffs tab with the main list left unfiltered.
GetListDiffs_Unfiltered(s) ==
    LET main == PathsOf(s.files)
        secondary == PathsOf(SelectSeq(s.files, IsTruncated))
    IN  [main |-> main,
         secondary |-> IF Len(secondary) = 0 THEN None ELSE Some(secondary),
         main_title |-> "Files",
         secondary_title |-> IF Len(secondary) = 0 THEN None ELSE Some("Truncated")]

GetListDiffs(s) ==
    LET main == PathsOf(SelectSeq(s.files, IsNotTruncated))
        secondary == PathsOf(SelectSeq(s.files, IsTruncated))
    IN  [main |-> main,
         secondary |-> IF Len(secondary) = 0 THEN None ELSE Some(secondary),
         main_title |-> "Files",
         secondary_title |-> IF Len(secondary) = 0 THEN None ELSE Some("Truncated")]

GetListCommits(s) ==
    IF IsSome(s.response) /\ IsOk(Unwrap(s.response).result)
    THEN LET res == Unwrap(s.response).result.Ok
         IN  [main |-> [i \in 1..Len(res.commits) |->
                           GetCommitPrefix(res.commits[i], CapitalizePrefix, IncludeScope)],
              secondary |-> None,
              main_title |-> "Commits",
              secondary_title |-> None]
    ELSE [main |-> <<>>, secondary |-> None, main_title |-> "", secondary_title |-> None]

GetList(s) ==
    IF s.selected_tab = "Diffs" THEN GetListDiffs(s) ELSE GetListCommits(s)

\* iter().find(|gai| gai.path == p): the first entry with the path, if any.
FindByPath(fs, p) ==
    LET hits == SelectSeq(fs, LAMBDA g : g.path = p)
    IN  IF Len(hits) = 0 THEN None ELSE Some(hits[1])

\* iter().position(|g| g.path == p): the first (1-based) index, if any.
PositionOf(fs, p) ==
    LET idx == { i \in 1..Len(fs) : fs[i].path = p }
    IN  IF idx = {} THEN None
        ELSE Some(CHOOSE i \in idx : \A j \in idx : i <= j)

\* get_content on the Diffs tab that indexes the full set with the cursor.
GetContentDiffs_RawIndex(s) ==
    LET idx == s.selected
    IN  IF IsSome(idx) /\ Unwrap(idx) < Len(s.files)
        THEN IF s.files[Unwrap(idx) + 1].should_truncate
             THEN Description("Truncated File")
             ELSE Diff(s.files[Unwrap(idx) + 1].hunks)
        ELSE Description("Select a file to view its diffs")

GetContentDiffs(s) ==
    LET selection_list == GetList(s).main
        idx == s.selected
    IN  IF IsSome(idx) /\ Unwrap(idx) < Len(selection_list)
        THEN LET found == FindByPath(s.files, selection_list[Unwrap(idx) + 1])
             IN  IF IsNone(found)
                 THEN Description("Select a file to view its diffs")
                 ELSE IF Unwrap(found).should_truncate
                      THEN Description("Truncated File")
                      ELSE Diff(Unwrap(found).hunks)
        ELSE Description("Select a file to view its diffs")

\* get_content on the Commits tab that looks at the cursor before the result.
GetContentCommits_SelectionFirst(s) ==
    LET idx == s.selected
    IN  IF IsSome(s.response)
        THEN LET result == Unwrap(s.response).result
             IN  IF IsNone(idx)
                 THEN Description("Select a Commit to View")
                 ELSE IF ~IsOk(result)
                      THEN Description(result.Err)
                      ELSE IF Unwrap(idx) < Len(result.Ok.commits)
                           THEN ResponseContent(result.Ok.commits[Unwrap(idx) + 1])
                           ELSE Description("Select a Commit to View")
        ELSE IF ~s.provider_found
             THEN Panicked("somehow failed to find provider config")
             ELSE IF s.is_loading
                  THEN Description("Awaiting response from " \o Provider
                                   \o " using " \o Model)
                  ELSE Description("Press 'p' to send a request to " \o Model)

\* get_content on the Commits tab that shows the first commit for any cursor
\* in range.
GetContentCommits_FirstCommit(s) ==
    LET idx == s.selected
    IN  IF IsSome(s.response)
        THEN LET result == Unwrap(s.response).result
             IN  IF ~IsOk(result)
                 THEN Description(result.Err)
                 ELSE IF IsSome(idx) /\ Unwrap(idx) < Len(result.Ok.commits)
                      THEN ResponseContent(result.Ok.commits[1])
                      ELSE Description("Select a Commit to View")
        ELSE IF ~s.provider_found
             THEN Panicked("somehow failed to find provider config")
             ELSE IF s.is_loading
                  THEN Description("Awaiting response from " \o Provider
                                   \o " using " \o Model)
                  ELSE Description("Press 'p' to send a request to " \o Model)

GetContentCommits(s) ==
    LET idx == s.selected
    IN  IF IsSome(s.response)
        THEN LET result == Unwrap(s.response).result
             IN  IF ~IsOk(result)
                 THEN Description(result.Err)
                 ELSE IF IsSome(idx) /\ Unwrap(idx) < Len(result.Ok.commits)
                      THEN ResponseContent(result.Ok.commits[Unwrap(idx) + 1])
                      ELSE Description("Select a Commit to View")
        ELSE IF ~s.provider_found
             THEN Panicked("somehow failed to find provider config")
             ELSE IF s.is_loading
                  THEN Description("Awaiting response from " \o Provider
                                   \o " using " \o Model)
                  ELSE Description("Press 'p' to send a request to " \o Model)

GetContent(s) ==
    IF s.selected_tab = "Diffs" THEN GetContentDiffs(s) ELSE GetContentCommits(s)

\* ------------------------------------------------------------ operations
RemoveAt(fs, pos) == SubSeq(fs, 1, pos - 1) \o SubSeq(fs, pos + 1, Len(fs))

\* remove_selected that removes by the raw cursor index.
RemoveSelected_RawIndex(s) ==
    IF s.selected_tab # "Diffs" THEN s
    ELSE LET idx == s.selected
         IN  IF IsSome(idx) /\ Unwrap(idx) < Len(s.files)
             THEN [s EXCEPT !.files = RemoveAt(s.files, Unwrap(idx) + 1)]
             ELSE s

\* remove_selected: the new App, or a panic of selection_list[selected].
RemoveSelected(s) ==
    IF s.selected_tab # "Diffs" THEN s
    ELSE LET selection_list == GetList(s).main
             idx == s.selected
         IN  IF IsSome(idx) /\ Unwrap(idx) < Len(s.files)
             THEN IF Unwrap(idx) >= Len(selection_list)
                  THEN Panicked("index out of bounds")
                  ELSE LET pos == PositionOf(s.files, selection_list[Unwrap(idx) + 1])
                       IN  IF IsSome(pos)
                           THEN [s EXCEPT !.files = RemoveAt(s.files, Unwrap(pos))]
                           ELSE s
             ELSE s

\* truncate_selected that resolves the cursor against the filtered main list.
TruncateSelected_Filtered(s) ==
    IF s.selected_tab # "Diffs" THEN s
    ELSE LET selection_list == GetList(s).main
             idx == s.selected
         IN  IF IsSome(idx) /\ Unwrap(idx) < Len(selection_list)
             THEN LET pos == Unwrap(PositionOf(s.files, selection_list[Unwrap(idx) + 1]))
                  IN  [s EXCEPT !.files[pos].should_truncate =
                                    ~s.files[pos].should_truncate]
             ELSE s

TruncateSelected(s) ==
    IF s.selected_tab # "Diffs" THEN s
    ELSE LET idx == s.selected
         IN  IF IsSome(idx) /\ Unwrap(idx) < Len(s.files)
             THEN [s EXCEPT !.files[Unwrap(idx) + 1].should_truncate =
                               ~s.files[Unwrap(idx) + 1].should_truncate]
             ELSE s

\* send_request without the is_loading guard.
SendRequestBranch_NoGuard(s) ==
    IF ~s.provider_found THEN "panic" ELSE "spawn"

\* send_request that goes on without the provider config.
SendRequestBranch_NoProviderCheck(s) ==
    IF s.is_loading THEN "return" ELSE "spawn"

\* send_request: what the call does, decided before any state change.
SendRequestBranch(s) ==
    IF s.is_loading THEN "return"
    ELSE IF ~s.provider_found THEN "panic"
    ELSE "spawn"

\* send_request that also clears the stored response at dispatch.
SendRequestApp_ClearResponse(s) ==
    [s EXCEPT !.is_loading = TRUE, !.response = None]

\* send_request: the App after a dispatch.
SendRequestApp(s) == [s EXCEPT !.is_loading = TRUE]

\* send_request that sends a default request, its diffs string never built.
BuildRequest_NoDiffs(s) == [diffs |-> <<>>]

\* The request built synchronously at dispatch.
BuildRequest(s) == [diffs |-> GetFileDiffsAsStr(s.files)]

\* display_response that stores the outcome but leaves is_loading set.
DisplayResponseOf_KeepLoading(s, resp) ==
    [s EXCEPT !.response = Some(resp)]

\* display_response that keeps an outcome already stored.
DisplayResponseOf_KeepFirst(s, resp) ==
    [s EXCEPT !.response = IF IsSome(s.response) THEN s.response ELSE Some(resp),
              !.is_loading = FALSE]

\* display_response that leaves is_loading set when the outcome is a failure.
DisplayResponseOf_FailureKeepsLoading(s, resp) ==
    [s EXCEPT !.response = Some(resp),
              !.is_loading = IF IsOk(resp.result) THEN FALSE ELSE s.is_loading]

DisplayResponseOf(s, resp) ==
    [s EXCEPT !.response = Some(resp), !.is_loading = FALSE]

\* apply_commits that does not look at the active tab.
ApplyCommitsBatch_AnyTab(s) ==
    IF IsSome(s.response) /\ IsOk(Unwrap(s.response).result)
    THEN LET cs == Unwrap(s.response).result.Ok.commits
         IN  Some([i \in 1..Len(cs) |->
                     FromResponse(cs[i], CapitalizePrefix, IncludeScope)])
    ELSE None

\* apply_commits: the batch handed to gai.apply_commits, if any.
ApplyCommitsBatch(s) ==
    IF s.selected_tab = "Diffs" THEN None
    ELSE IF IsSome(s.response) /\ IsOk(Unwrap(s.response).result)
         THEN LET cs == Unwrap(s.response).result.Ok.commits
              IN  Some([i \in 1..Len(cs) |->
                          FromResponse(cs[i], CapitalizePrefix, IncludeScope)])
         ELSE None

\* run: the cursor after the auto-select.
RunSelected(s) ==
    IF Len(GetList(s).main) # 0 /\ IsNone(s.selected) THEN Some(0) ELSE s.selected

\* ------------------------------------------------------------------- Init
Init ==
    /\ \E fs \in InitFiles, r \in {None} \cup { Some(o) : o \in Outcomes },
          pf \in BOOLEAN :
          app = [files |-> fs,
                 selected_tab |-> "Diffs",
                 selected |-> None,
                 response |-> r,
                 is_loading |-> FALSE,
                 applied_commits |-> FALSE,
                 provider_found |-> pf]
    /\ tasks = {}
    /\ channel = <<>>
    /\ dispatched = 0
    /\ consumed = 0
    /\ aborted = FALSE
    /\ last_op = [op |-> "new"]
    /\ pre = [app |-> app, tasks |-> {}, channel |-> <<>>,
              dispatched |-> 0, consumed |-> 0]
    /\ rendered = None
    /\ submitted = None

\* ---------------------------------------------------------------- actions
Step(op) ==
    /\ ~aborted
    /\ last_op' = op
    /\ pre' = Snapshot

Abort ==
    /\ aborted' = TRUE
    /\ UNCHANGED <<app, tasks, channel, dispatched, consumed>>
    /\ rendered' = None
    /\ submitted' = None

send_request ==
    /\ Step([op |-> "send_request"])
    /\ LET branch == SendRequestBranch(app)
       IN  CASE branch = "return" ->
                  /\ UNCHANGED <<app, tasks, channel, dispatched, consumed, aborted>>
                  /\ rendered' = None
                  /\ submitted' = None
             [] branch = "panic" -> Abort
             [] branch = "spawn" ->
                  /\ dispatched < MaxRequests
                  /\ app' = SendRequestApp(app)
                  /\ tasks' = tasks \cup {[id |-> dispatched + 1, req |-> BuildRequest(app)]}
                  /\ dispatched' = dispatched + 1
                  /\ UNCHANGED <<channel, consumed, aborted>>
                  /\ rendered' = None
                  /\ submitted' = None

\* The spawned task: get_response returns and the result is sent on tx.
task_complete ==
    \E t \in tasks, o \in Outcomes :
        /\ Step([op |-> "task_complete", id |-> t.id])
        /\ tasks' = tasks \ {t}
        /\ channel' = Append(channel, [id |-> t.id, resp |-> o])
        /\ UNCHANGED <<app, dispatched, consumed, aborted>>
        /\ rendered' = None
        /\ submitted' = None

\* The event loop receives a channel message and calls display_response.
display_response ==
    /\ Len(channel) > 0
    /\ Step([op |-> "display_response", arg |-> Head(channel).resp])
    /\ app' = DisplayResponseOf(app, Head(channel).resp)
    /\ channel' = Tail(channel)
    /\ consumed' = consumed + 1
    /\ UNCHANGED <<tasks, dispatched, aborted>>
    /\ rendered' = None
    /\ submitted' = None

\* display_response called directly with any outcome (it is a pub fn).
display_response_direct ==
    \E o \in Outcomes :
        /\ Step([op |-> "display_response", arg |-> o])
        /\ app' = DisplayResponseOf(app, o)
        /\ UNCHANGED <<tasks, channel, dispatched, consumed, aborted>>
        /\ rendered' = None
        /\ submitted' = None

apply_commits ==
    /\ Step([op |-> "apply_commits", before |-> submitted])
    /\ submitted' = ApplyCommitsBatch(app)
    /\ rendered' = None
    /\ UNCHANGED <<app, tasks, channel, dispatched, consumed, aborted>>

remove_selected ==
    /\ Step([op |-> "remove_selected"])
    /\ LET r == RemoveSelected(app)
       IN  IF IsPanic(r) THEN Abort
           ELSE /\ app' = r
                /\ UNCHANGED <<tasks, channel, dispatched, consumed, aborted>>
                /\ rendered' = None
                /\ submitted' = None

truncate_selected ==
    /\ Step([op |-> "truncate_selected"])
    /\ app' = TruncateSelected(app)
    /\ UNCHANGED <<tasks, channel, dispatched, consumed, aborted>>
    /\ rendered' = None
    /\ submitted' = None

run ==
    /\ Step([op |-> "run"])
    /\ LET tab_list == GetList(app)
           tab_content == GetContent(app)
       IN  IF IsPanic(tab_content) THEN Abort
           ELSE /\ app' = [app EXCEPT !.selected = RunSelected(app)]
                /\ rendered' = Some([content |-> tab_content,
                                     list |-> tab_list,
                                     selected |-> RunSelected(app),
                                     is_loading |-> app.is_loading])
                /\ submitted' = None
                /\ UNCHANGED <<tasks, channel, dispatched, consumed, aborted>>

\* The UI moves the cursor (scroll up/down, focus): any value.
select_cursor ==
    \E c \in {None} \cup { Some(i) : i \in 0..MaxCursor } :
        /\ c # app.selected
        /\ Step([op |-> "select"])
        /\ app' = [app EXCEPT !.selected = c]
        /\ UNCHANGED <<tasks, channel, dispatched, consumed, aborted>>
        /\ rendered' = None
        /\ submitted' = None

\* The UI switches the tab.
select_tab ==
    \E t \in {"Diffs", "Commits"} :
        /\ t # app.selected_tab
        /\ Step([op |-> "select_tab"])
        /\ app' = [app EXCEPT !.selected_tab = t]
        /\ UNCHANGED <<tasks, channel, dispatched, consumed, aborted>>
        /\ rendered' = None
        /\ submitted' = None

Next ==
    \/ send_request
    \/ task_complete
    \/ display_response
    \/ apply_commits
    \/ remove_selected
    \/ truncate_selected
    \/ run
    \/ select_cursor
    \/ select_tab

Spec == Init /\ [][Next]_vars

\* The program with its scheduling: the runtime runs a spawned task to its
\* reply (the transport replies), and the event loop keeps receiving from
\* the channel.
SpecFair ==
    /\ Init
    /\ [][Next]_vars
    /\ WF_vars(task_complete)
    /\ WF_vars(display_response)

\* The response slot driven through the public methods alone: send_request
\* and display_response called by any caller, with any outcome, in any state.
NextDirect ==
    \/ send_request
    \/ display_response_direct
    \/ select_cursor
    \/ select_tab

SpecDirect == Init /\ [][NextDirect]_vars

\* ------------------------------------------------------------------ claims
Outstanding == Cardinality(tasks) + Len(channel)

\* C1: send_request called while is_loading is true is a no-op: the stored
\* response (and the rest of App) is unchanged, no background task is
\* spawned, nothing is put on the channel, and is_loading stays true.
C1_SendWhileLoadingIsNoOp ==
    (last_op.op = "send_request" /\ pre.app.is_loading) =>
        /\ app.response = pre.app.response
        /\ app = pre.app
        /\ tasks = pre.tasks
        /\ channel = pre.channel
        /\ dispatched = pre.dispatched
        /\ app.is_loading
        /\ ~aborted

C1_Witness ==
    /\ last_op.op = "send_request"
    /\ pre.app.is_loading
    /\ IsSome(app.response)
    /\ Outstanding = 1

\* C2: in every reachable state the number of outstanding requests (running
\* tasks plus results not yet taken from the channel) is at most one,
\* is_loading is true exactly when it is one, and is_loading goes from true
\* to false only in a display_response step.
C2_OneInFlight ==
    /\ Outstanding <= 1
    /\ app.is_loading <=> (Outstanding = 1)
    /\ (pre.app.is_loading /\ ~app.is_loading) => last_op.op = "display_response"

C2_Witness ==
    /\ last_op.op = "display_response"
    /\ pre.app.is_loading
    /\ ~app.is_loading
    /\ consumed = 2
    /\ Outstanding = 0

\* C3: after display_response(outcome), from any prior state, is_loading is
\* false and the stored response is exactly outcome; files, tab and cursor
\* are unchanged.
C3_DisplayStoresOutcome ==
    last_op.op = "display_response" =>
        /\ ~app.is_loading
        /\ app.response = Some(last_op.arg)
        /\ app.files = pre.app.files
        /\ app.selected_tab = pre.app.selected_tab
        /\ app.selected = pre.app.selected

C3_Witness ==
    /\ last_op.op = "display_response"
    /\ ~pre.app.is_loading
    /\ IsSome(pre.app.response)
    /\ pre.app.response # app.response
    /\ ~IsOk(Unwrap(pre.app.response).result)
    /\ IsOk(Unwrap(app.response).result)

\* C4: request N+1 is dispatched only after the result of request N was
\* consumed by display_response, every outstanding request is the one after
\* the last consumed, and the k-th result stored is that of request k.
C4_ResultsInDispatchOrder ==
    /\ (last_op.op = "send_request" /\ dispatched = pre.dispatched + 1) =>
           /\ consumed = pre.dispatched
           /\ pre.tasks = {}
           /\ pre.channel = <<>>
    /\ \A t \in tasks : t.id = consumed + 1
    /\ \A i \in 1..Len(channel) : channel[i].id = consumed + 1
    /\ last_op.op = "display_response" =>
           /\ consumed = pre.consumed + 1
           /\ Head(pre.channel).id = consumed

C4_Witness ==
    /\ last_op.op = "display_response"
    /\ consumed = 2
    /\ Head(pre.channel).id = 2

\* Positions of the entries of fs that are not / are truncated, and the rank
\* of position i among the positions S (1 for the smallest).
NonTruncated(fs) == { i \in 1..Len(fs) : ~fs[i].should_truncate }
Truncated(fs) == { i \in 1..Len(fs) : fs[i].should_truncate }
Rank(S, i) == Cardinality({ j \in S : j <= i })

\* lst holds exactly the paths of the entries of fs at the positions S, in
\* the order of fs.
HoldsInOrder(lst, fs, S) ==
    /\ Len(lst) = Cardinality(S)
    /\ \A i \in S : lst[Rank(S, i)] = fs[i].path

DiffsList == GetList([app EXCEPT !.selected_tab = "Diffs"])

\* C5: in every reachable DiffSet state the Diffs-tab main list is exactly
\* the paths of the non-truncated entries in their original relative order
\* (ascending path, as loaded); secondary is present iff some entry is
\* truncated and then holds exactly the truncated paths in order, titled
\* "Truncated"; main and secondary partition the DiffSet.
C5_DiffsListPartition ==
    LET fs == app.files
        l == DiffsList
    IN  /\ \A i, j \in 1..Len(fs) : i < j => fs[i].path < fs[j].path
        /\ HoldsInOrder(l.main, fs, NonTruncated(fs))
        /\ IsSome(l.secondary) <=> Truncated(fs) # {}
        /\ IsSome(l.secondary) =>
              /\ HoldsInOrder(Unwrap(l.secondary), fs, Truncated(fs))
              /\ l.secondary_title = Some("Truncated")
        /\ IsNone(l.secondary) => l.secondary_title = None
        /\ l.main_title = "Files"
        /\ Len(l.main) + (IF IsSome(l.secondary) THEN Len(Unwrap(l.secondary)) ELSE 0)
              = Len(fs)
        /\ \A k \in 1..Len(l.main) :
              IsSome(l.secondary) =>
                  \A m \in 1..Len(Unwrap(l.secondary)) : l.main[k] # Unwrap(l.secondary)[m]

C5_Witness ==
    /\ last_op.op = "truncate_selected"
    /\ app.files # pre.app.files
    /\ Len(DiffsList.main) >= 1
    /\ IsSome(DiffsList.secondary)
    /\ app.files[1].should_truncate

\* C6: remove_selected on the Diffs tab with cursor Some(i), i below the
\* number of non-truncated entries, removes exactly the i-th non-truncated
\* entry: the set shrinks by one, every other entry is kept as it was, in
\* order, and the cursor and the rest of App are not changed.
C6_RemoveAtFilteredPosition ==
    LET pf == pre.app.files
        sel == pre.app.selected
    IN  ( /\ last_op.op = "remove_selected"
          /\ pre.app.selected_tab = "Diffs"
          /\ IsSome(sel)
          /\ Unwrap(sel) < Cardinality(NonTruncated(pf)) ) =>
            /\ ~aborted
            /\ Len(app.files) = Len(pf) - 1
            /\ \E pos \in NonTruncated(pf) :
                  /\ Rank(NonTruncated(pf), pos) = Unwrap(sel) + 1
                  /\ \A k \in 1..Len(app.files) :
                        app.files[k] = IF k < pos THEN pf[k] ELSE pf[k + 1]
            /\ app.selected = sel
            /\ [app EXCEPT !.files = pf] = pre.app

C6_Witness ==
    /\ last_op.op = "remove_selected"
    /\ pre.app.selected_tab = "Diffs"
    /\ pre.app.selected = Some(0)
    /\ Len(pre.app.files) = 2
    /\ pre.app.files[1].should_truncate
    /\ ~pre.app.files[2].should_truncate
    /\ Len(app.files) = 1
    /\ app.files[1] = pre.app.files[1]

\* C7: remove_selected with the cursor absent or not below the length of the
\* filtered main list is a silent no-op: the DiffSet is unchanged and the
\* program does not abort.
C7_RemoveOutOfRangeIsNoOp ==
    LET pf == pre.app.files
        sel == pre.app.selected
    IN  ( /\ last_op.op = "remove_selected"
          /\ (IsNone(sel) \/ Unwrap(sel) >= Cardinality(NonTruncated(pf))) ) =>
            /\ ~aborted
            /\ app.files = pf

\* C8: truncate_selected on the Diffs tab with cursor Some(i), i below the
\* length of the full set, flips should_truncate of the entry at raw
\* position i and changes nothing else; with the cursor absent, i not below
\* that length, or the Commits tab active, it changes nothing.
C8_TruncateAtRawPosition ==
    LET pf == pre.app.files
        sel == pre.app.selected
    IN  last_op.op = "truncate_selected" =>
            /\ ~aborted
            /\ [app EXCEPT !.files = pf] = pre.app
            /\ Len(app.files) = Len(pf)
            /\ \A k \in 1..Len(pf) :
                  /\ app.files[k].path = pf[k].path
                  /\ app.files[k].hunks = pf[k].hunks
                  /\ app.files[k].should_truncate =
                        IF /\ pre.app.selected_tab = "Diffs"
                           /\ IsSome(sel)
                           /\ k = Unwrap(sel) + 1
                        THEN ~pf[k].should_truncate
                        ELSE pf[k].should_truncate

\* The cursor shows the second file (the first is truncated), and the flip
\* hits the first.
C8_Witness ==
    /\ last_op.op = "truncate_selected"
    /\ pre.app.selected_tab = "Diffs"
    /\ pre.app.selected = Some(0)
    /\ Len(pre.app.files) = 2
    /\ pre.app.files[1].should_truncate
    /\ ~pre.app.files[2].should_truncate
    /\ ~app.files[1].should_truncate
    /\ ~app.files[2].should_truncate

IsFailed(s) == IsSome(s.response) /\ ~IsOk(Unwrap(s.response).result)
IsSuccess(s) == IsSome(s.response) /\ IsOk(Unwrap(s.response).result)

\* C9: on the Commits tab with a failed outcome stored, the detail content is
\* Description(failure message) whatever the cursor and is_loading are, and
\* the list has an empty main list and empty titles; this is what run hands
\* to the render surface.
C9_FailureContent ==
    /\ (app.selected_tab = "Commits" /\ IsFailed(app)) =>
          /\ GetContent(app) = Description(Unwrap(app.response).result.Err)
          /\ GetList(app).main = <<>>
          /\ GetList(app).main_title = ""
          /\ GetList(app).secondary = None
          /\ GetList(app).secondary_title = None
    /\ (last_op.op = "run" /\ pre.app.selected_tab = "Commits" /\ IsFailed(pre.app)) =>
          /\ IsSome(rendered)
          /\ Unwrap(rendered).content = Description(Unwrap(pre.app.response).result.Err)
          /\ Unwrap(rendered).list.main = <<>>
          /\ Unwrap(rendered).list.main_title = ""
          /\ Unwrap(rendered).list.secondary_title = None

C9_Witness ==
    /\ last_op.op = "run"
    /\ app.selected_tab = "Commits"
    /\ IsFailed(app)
    /\ app.is_loading
    /\ app.selected = Some(1)
    /\ IsSome(rendered)
    /\ Unwrap(rendered).content = Description("request failed")

\* The content the Commits tab owes for cursor sel over n suggestions.
CommitContentFor(sel, n) ==
    IF IsSome(sel) /\ Unwrap(sel) < n
    THEN ResponseContent(ResponseCommit(Unwrap(sel) + 1))
    ELSE Description("Select a Commit to View")

\* C10: on the Commits tab with a successful outcome of n suggestions, the
\* content is Suggestion(suggestions[i]) for cursor Some(i), i < n, and
\* Description("Select a Commit to View") for cursor None or i >= n; the main
\* list has exactly n entries, the k-th the prefix line of suggestion k.
C10_SuccessContent ==
    /\ (app.selected_tab = "Commits" /\ IsSuccess(app)) =>
          LET n == Len(Unwrap(app.response).result.Ok.commits)
              l == GetList(app)
          IN  /\ GetContent(app) = CommitContentFor(app.selected, n)
              /\ Len(l.main) = n
              /\ \A k \in 1..n :
                    l.main[k] = GetCommitPrefix(ResponseCommit(k), CapitalizePrefix, IncludeScope)
              /\ (IsSome(app.selected) /\ Unwrap(app.selected) < Len(l.main)) =>
                    "Response" \in DOMAIN GetContent(app)
    /\ (last_op.op = "run" /\ pre.app.selected_tab = "Commits" /\ IsSuccess(pre.app)) =>
          LET n == Len(Unwrap(pre.app.response).result.Ok.commits)
          IN  /\ IsSome(rendered)
              /\ Unwrap(rendered).content = CommitContentFor(pre.app.selected, n)
              /\ Len(Unwrap(rendered).list.main) = n

C10_Witness ==
    /\ last_op.op = "run"
    /\ app.selected_tab = "Commits"
    /\ IsSuccess(app)
    /\ Len(Unwrap(app.response).result.Ok.commits) = 2
    /\ pre.app.selected = Some(1)
    /\ IsSome(rendered)
    /\ Unwrap(rendered).content = ResponseContent(ResponseCommit(2))

\* The content the Diffs tab owes for cursor sel over the files fs: the hunks
\* of the entry at rank sel+1 among the non-truncated ones.
DiffContentFor(sel, fs) ==
    IF IsSome(sel) /\ Unwrap(sel) < Cardinality(NonTruncated(fs))
    THEN LET pos == CHOOSE p \in NonTruncated(fs) :
                        Rank(NonTruncated(fs), p) = Unwrap(sel) + 1
         IN  Diff(HunksOf(fs[pos].path))
    ELSE Description("Select a file to view its diffs")

\* C11: on the Diffs tab the content is resolved against the filtered main
\* list: for cursor Some(i), i < len(main), it is Diff(hunks) of the entry
\* whose path is main[i]; for the cursor absent or i >= len(main) it is
\* Description("Select a file to view its diffs"); the lookup never panics.
C11_DiffsContent ==
    /\ app.selected_tab = "Diffs" =>
          /\ ~IsPanic(GetContent(app))
          /\ GetContent(app) = DiffContentFor(app.selected, app.files)
          /\ (IsSome(app.selected) /\ Unwrap(app.selected) < Len(GetList(app).main)) =>
                \E i \in 1..Len(app.files) :
                    /\ app.files[i].path = GetList(app).main[Unwrap(app.selected) + 1]
                    /\ GetContent(app) =
                          IF app.files[i].should_truncate
                          THEN Description("Truncated File")
                          ELSE Diff(app.files[i].hunks)
    /\ (last_op.op = "run" /\ pre.app.selected_tab = "Diffs") =>
          /\ IsSome(rendered)
          /\ ~aborted
          /\ Unwrap(rendered).content = DiffContentFor(pre.app.selected, pre.app.files)

\* The cursor is at filtered position 0 and shows the second file.
C11_Witness ==
    /\ last_op.op = "run"
    /\ pre.app.selected_tab = "Diffs"
    /\ pre.app.selected = Some(0)
    /\ Len(app.files) = 2
    /\ app.files[1].should_truncate
    /\ ~app.files[2].should_truncate
    /\ IsSome(rendered)
    /\ Unwrap(rendered).content = Diff(HunksOf(2))

\* C12: the request payload is the diffs string of the DiffSet at dispatch;
\* remove_selected and truncate_selected while the request is in flight
\* change neither the payload nor the set of running tasks nor the channel
\* nor is_loading.
C12_PayloadIsSnapshot ==
    /\ (last_op.op = "send_request" /\ dispatched = pre.dispatched + 1) =>
          \A t \in tasks \ pre.tasks :
              t.req.diffs = GetFileDiffsAsStr(pre.app.files)
    /\ last_op.op \in {"remove_selected", "truncate_selected"} =>
          /\ tasks = pre.tasks
          /\ channel = pre.channel
          /\ app.is_loading = pre.app.is_loading
          /\ app.response = pre.app.response
    /\ last_op.op # "task_complete" => pre.tasks \subseteq tasks

\* A file was truncated in flight: the DiffSet no longer gives the payload.
C12_Witness ==
    /\ last_op.op = "truncate_selected"
    /\ app.files # pre.app.files
    /\ app.is_loading
    /\ \E t \in tasks :
          /\ t.req.diffs # GetFileDiffsAsStr(app.files)
          /\ t.req.diffs = GetFileDiffsAsStr(pre.app.files)
          /\ Len(t.req.diffs) = 2

\* C13: apply_commits hands a batch to the commit sink iff the active tab is
\* not Diffs and a successful response is stored; the batch is one commit
\* request per suggestion, in suggestion order, in one call; a call right
\* after an effective call submits the same batch again; App, tasks and
\* channel are left unchanged.
C13_ApplyCommits ==
    /\ IsSome(submitted) => last_op.op = "apply_commits"
    /\ last_op.op = "apply_commits" =>
          /\ IsSome(submitted) <=>
                (pre.app.selected_tab # "Diffs" /\ IsSuccess(pre.app))
          /\ IsSome(submitted) =>
                LET n == Len(Unwrap(pre.app.response).result.Ok.commits)
                IN  /\ Len(Unwrap(submitted)) = n
                    /\ \A k \in 1..n :
                          Unwrap(submitted)[k] =
                              FromResponse(ResponseCommit(k), CapitalizePrefix, IncludeScope)
          /\ IsSome(last_op.before) => submitted = last_op.before
          /\ app = pre.app
          /\ tasks = pre.tasks
          /\ channel = pre.channel
          /\ ~aborted

\* The second of two effective calls in a row, with two suggestions.
C13_Witness ==
    /\ last_op.op = "apply_commits"
    /\ IsSome(last_op.before)
    /\ IsSome(submitted)
    /\ Len(Unwrap(submitted)) = 2

\* C14: applied_commits is false after construction and true after an
\* effective apply_commits on the stored response.
C14_AppliedFlag ==
    /\ last_op.op = "new" => ~app.applied_commits
    /\ (last_op.op = "apply_commits" /\ IsSome(submitted)) => app.applied_commits

\* C15: with the active provider missing from the provider map, send_request
\* called while not loading aborts before any state change (no task, no
\* is_loading), and so does deriving the content on the Commits tab with no
\* stored response; with the provider present neither aborts.
C15_MissingProviderAborts ==
    /\ (last_op.op = "send_request" /\ ~pre.app.is_loading /\ ~pre.app.provider_found) =>
          /\ aborted
          /\ app = pre.app
          /\ ~app.is_loading
          /\ tasks = pre.tasks
          /\ channel = pre.channel
          /\ dispatched = pre.dispatched
    /\ (/\ last_op.op = "run"
        /\ pre.app.selected_tab = "Commits"
        /\ IsNone(pre.app.response)
        /\ ~pre.app.provider_found) =>
          /\ aborted
          /\ app = pre.app
          /\ rendered = None
    /\ (aborted /\ last_op.op \in {"send_request", "run"}) => ~pre.app.provider_found

C15_Witness ==
    /\ aborted
    /\ last_op.op = "send_request"
    /\ ~pre.app.provider_found
    /\ app.selected_tab = "Commits"
    /\ IsSome(app.response)

\* C16: a transport failure delivered to display_response is stored as the
\* failure outcome and leaves the session idle and alive; requests are
\* dispatched by send_request steps only; and a send_request made when idle
\* with a failure stored dispatches a new request.
C16_FailureThenRetry ==
    /\ (dispatched # pre.dispatched \/ ~(tasks \subseteq pre.tasks)) =>
          last_op.op = "send_request"
    /\ (last_op.op = "display_response" /\ ~IsOk(last_op.arg.result)) =>
          /\ IsFailed(app)
          /\ Unwrap(app.response) = last_op.arg
          /\ ~app.is_loading
          /\ ~aborted
          /\ tasks = {}
          /\ channel = <<>>
    /\ (/\ last_op.op = "send_request"
        /\ IsFailed(pre.app)
        /\ ~pre.app.is_loading
        /\ pre.app.provider_found) =>
          /\ ~aborted
          /\ dispatched = pre.dispatched + 1
          /\ app.is_loading
          /\ Cardinality(tasks) = 1

\* The retry: request 1 failed and was delivered, request 2 is dispatched.
C16_Witness ==
    /\ last_op.op = "send_request"
    /\ IsFailed(pre.app)
    /\ pre.consumed = 1
    /\ pre.dispatched = 1
    /\ dispatched = 2
    /\ app.is_loading

\* C17: with the transport replying and the loop consuming the channel, every
\* dispatched request r is eventually followed by a state where its outcome
\* was stored and is_loading is false; and is_loading is reset by no step
\* other than display_response.
C17_RequestCompletes ==
    /\ \A r \in 1..MaxRequests :
          (dispatched = r) ~>
              (consumed >= r /\ IsSome(app.response) /\ (consumed = r => ~app.is_loading))
    /\ [][(app.is_loading /\ ~app.is_loading') => (consumed' = consumed + 1)]_vars

\* C18: in every render pass the content handed to the render surface is the
\* content for the cursor the render surface receives in that pass (on an
\* auto-select pass: the content for cursor Some(0)).
C18_RenderedContentMatchesCursor ==
    (last_op.op = "run" /\ IsSome(rendered)) =>
        /\ Unwrap(rendered).selected = app.selected
        /\ Unwrap(rendered).content =
              GetContent([pre.app EXCEPT !.selected = Unwrap(rendered).selected])

CursorValues == {None} \cup { Some(i) : i \in 0..MaxFiles }

\* C19: the paths of the DiffSet being unique, the Diffs-tab content is never
\* Description("Truncated File"), in any reachable state and for any cursor
\* value, nor is that ever rendered on the Diffs tab.
C19_NeverTruncatedFile ==
    /\ \A i, j \in 1..Len(app.files) : i # j => app.files[i].path # app.files[j].path
    /\ \A c \in CursorValues :
          GetContent([app EXCEPT !.selected_tab = "Diffs", !.selected = c])
              # Description("Truncated File")
    /\ (last_op.op = "run" /\ IsSome(rendered)) =>
          Unwrap(rendered).content # Description("Truncated File")

\* The cursor's raw position is a truncated file; the filtered list is
\* shorter, so nothing is selected.
C19_Witness ==
    /\ last_op.op = "run"
    /\ pre.app.selected_tab = "Diffs"
    /\ pre.app.selected = Some(1)
    /\ Len(app.files) = 2
    /\ ~app.files[1].should_truncate
    /\ app.files[2].should_truncate
    /\ IsSome(rendered)
    /\ Unwrap(rendered).content = Description("Select a file to view its diffs")

Awaiting == Description("Awaiting response from " \o Provider \o " using " \o Model)

\* C20: a stored response is never cleared and changes only in
\* display_response; send_request leaves it in place, so with a response
\* stored the Commits tab shows that outcome also while a later request is in
\* flight, and the "Awaiting response" content appears only while loading with
\* no outcome ever delivered.
C20_ResponseNeverCleared ==
    /\ IsSome(pre.app.response) => IsSome(app.response)
    /\ last_op.op = "send_request" => app.response = pre.app.response
    /\ app.response # pre.app.response => last_op.op = "display_response"
    /\ (app.selected_tab = "Commits" /\ IsSome(app.response)) =>
          GetContent(app) =
              IF IsFailed(app)
              THEN Description(Unwrap(app.response).result.Err)
              ELSE CommitContentFor(app.selected,
                                    Len(Unwrap(app.response).result.Ok.commits))
    /\ (~IsPanic(GetContent(app)) /\ GetContent(app) = Awaiting) =>
          /\ app.selected_tab = "Commits"
          /\ IsNone(app.response)
          /\ app.is_loading
          /\ consumed = 0
    /\ (last_op.op = "run" /\ IsSome(rendered) /\ Unwrap(rendered).content = Awaiting) =>
          /\ IsNone(app.response)
          /\ consumed = 0

\* The second request is in flight and the first outcome is still rendered.
C20_Witness ==
    /\ last_op.op = "run"
    /\ app.selected_tab = "Commits"
    /\ app.is_loading
    /\ dispatched = 2
    /\ consumed = 1
    /\ IsSome(rendered)
    /\ Unwrap(rendered).content = Description("request failed")
    /\ Unwrap(rendered).is_loading

====
